---- MODULE Spec2Model ----
(***************************************************************************)
(* Model of parquet-hf-rs (src/main.rs): conversion of line-delimited JSON *)
(* files into Parquet files.                                               *)
(*                                                                         *)
(*   Spec      one run of jsonl_to_parquet over one input file, step by    *)
(*             step (read, one loop iteration per line, finish the         *)
(*             builders, RecordBatch::try_new, encode, write).             *)
(*   SpecMain  main: the rayon par_iter().for_each over the discovered     *)
(*             paths, with the shared progress bar.                        *)
(*   SpecMax   _find_max_item applied to one JSON value.                   *)
(*   SpecExt   replace_extension applied to one path.                      *)
(***************************************************************************)
EXTENDS Integers, Sequences, FiniteSets, TLC

VARIABLES
    \* ---- jsonl_to_parquet (Spec) ----
    contents,   \* the lines of the input file, as read_pathbuf_to_mem returns them
    readOk,     \* environment: whether read_pathbuf_to_mem succeeds
    writeOk,    \* environment: whether write_mem_to_pathbuf succeeds
    pc,         \* position inside jsonl_to_parquet
    idx,        \* number of lines the for loop has consumed
    builders,   \* the six column builders
    arrays,     \* the six finished arrays (<<>> before finish())
    buf,        \* the in-memory Parquet buffer (NoValue before encoding)
    output,     \* what is stored at output_path (NoValue: nothing written)
    writes,     \* number of calls of write_mem_to_pathbuf
    fault,      \* why the function stopped: "none" or the failing step
    \* ---- main (SpecMain) ----
    files,      \* the discovered paths, each with its contents and environment
    threads,    \* the size of rayon's thread pool
    jobs,       \* rayon's tasks over index ranges of the path list
    pos,        \* the progress bar's position
    out,        \* per file: the artifact at its output path (NoValue: none)
    results,    \* per file: "pending", or how its jsonl_to_parquet call ended
    incs,       \* per file: how often pbar.inc(1) ran for it
    mainpc,     \* position of main
    \* ---- _find_max_item (SpecMax) ----
    mjson, mresult, mpc,
    \* ---- replace_extension (SpecExt) ----
    path, outpath, epc

convVars == <<contents, readOk, writeOk, pc, idx, builders, arrays, buf, output, writes, fault>>
mainVars == <<files, threads, jobs, pos, out, results, incs, mainpc>>
maxVars  == <<mjson, mresult, mpc>>
extVars  == <<path, outpath, epc>>
vars     == <<convVars, mainVars, maxVars, extVars>>

(***************************************************************************)
(* Bounds of the model.                                                    *)
(***************************************************************************)
MaxLines   == 2    \* lines per input file
MaxEntries == 2    \* entries of a label-to-score mapping
MaxFiles   == 3    \* discovered paths
MaxThreads == 2    \* threads of the pool

(***************************************************************************)
(* serde_json::Value.  One record shape for every value; Absent stands for *)
(* the None of Value::get.  An object is its entries in iteration order.   *)
(***************************************************************************)
Absent    == [t |-> "absent", s |-> "", n |-> 0, e |-> <<>>]
JNull     == [t |-> "null",   s |-> "", n |-> 0, e |-> <<>>]
JStr(x)   == [t |-> "str",    s |-> x,  n |-> 0, e |-> <<>>]
JNum(x)   == [t |-> "num",    s |-> "", n |-> x, e |-> <<>>]
JObj(ent) == [t |-> "obj",    s |-> "", n |-> 0, e |-> ent]
Entry(key, val) == [k |-> key, v |-> val]

\* Option<T> of the Rust code
None    == [some |-> FALSE]
Some(x) == [some |-> TRUE, val |-> x]

\* Value::get(key): Some(value) for an object that has the key, else None
Get(json, key) ==
    IF json.t = "obj" /\ \E i \in 1..Len(json.e) : json.e[i].k = key
    THEN json.e[CHOOSE i \in 1..Len(json.e) : json.e[i].k = key].v
    ELSE Absent

\* json[key] (Index): Value::Null where get gives None
Index(json, key) == IF Get(json, key) = Absent THEN JNull ELSE Get(json, key)

\* Value::as_str, Value::as_f64
as_str(v) == IF v.t = "str" THEN Some(v.s) ELSE None
as_f64(v) == IF v.t = "num" THEN Some(v.n) ELSE None

\* `x as f32`: the scores of the model are small dyadic numbers, which the
\* narrowing keeps exactly.
AsF32(x) == x

(***************************************************************************)
(* _find_max_item (main.rs 88-99).                                         *)
(***************************************************************************)
\* filter_map(|(key, value)| value.as_f64().map(|v| (key, v)))
RECURSIVE FilterNumeric(_)
FilterNumeric(ent) ==
    IF ent = <<>> THEN <<>>
    ELSE LET h == Head(ent)
         IN  IF as_f64(h.v).some
             THEN <<[k |-> h.k, v |-> as_f64(h.v).val]>> \o FilterNumeric(Tail(ent))
             ELSE FilterNumeric(Tail(ent))

\* a.partial_cmp(&b).unwrap_or(Equal) on finite scores
Cmp(a, b) == IF a < b THEN "Less" ELSE IF a > b THEN "Greater" ELSE "Equal"

\* Iterator::max_by: a fold that keeps the accumulated item only when it
\* compares Greater than the next one.
MaxByStep(acc, x) == IF Cmp(acc.v, x.v) = "Greater" THEN acc ELSE x

RECURSIVE MaxByFold(_, _)
MaxByFold(acc, items) ==
    IF items = <<>> THEN acc
    ELSE MaxByFold(MaxByStep(acc, Head(items)), Tail(items))

max_by(items) ==
    IF items = <<>> THEN None ELSE Some(MaxByFold(Head(items), Tail(items)))

\* json is the Option<&Value> of json.get(..): Absent is None
_find_max_item(json) ==
    IF json = Absent THEN None
    ELSE IF json.t # "obj" THEN None
    ELSE max_by(FilterNumeric(json.e))

(***************************************************************************)
(* replace_extension (main.rs 61-74).  A path is a sequence of characters. *)
(***************************************************************************)
Dot     == <<".">>
Parquet == <<".", "p", "a", "r", "q", "u", "e", "t">>

\* the language of  \.jsonl?\.(?:zstd|gz)  (the part before the $ anchor)
RegexLang ==
    { Dot \o <<"j", "s", "o", "n">> \o l \o Dot \o c :
        l \in {<<>>, <<"l">>},
        c \in {<<"z", "s", "t", "d">>, <<"g", "z">>} }

\* start positions of a match that ends at the end of the text ($)
MatchStarts(str) == { i \in 1..Len(str) : SubSeq(str, i, Len(str)) \in RegexLang }

\* Regex::is_match
is_match(str) == MatchStarts(str) # {}

\* Regex::replace: the leftmost match replaced
Min(S) == CHOOSE x \in S : \A y \in S : x <= y
regex_replace(str, rep) == SubSeq(str, 1, Min(MatchStarts(str)) - 1) \o rep

replace_extension(p) == IF is_match(p) THEN regex_replace(p, Parquet) ELSE p

(***************************************************************************)
(* The input lines.  A line is the class of its text together with, for a  *)
(* line that is a JSON document, the value serde_json::from_str gives.     *)
(***************************************************************************)
LangKey == "language_id_whole_page_fasttext"
FtKey   == "fasttext_openhermes_reddit_eli5_vs_rw_v2_bigram_200k_train_prob"

JsonLine(val) == [raw |-> "json", val |-> val]
TextLine(cls) == [raw |-> cls, val |-> JNull]

\* serde_json::from_str: an empty or whitespace-only line is "EOF while
\* parsing a value", any other non-JSON text a syntax error
from_str(line) ==
    IF line.raw = "json" THEN [ok |-> TRUE, val |-> line.val]
    ELSE [ok |-> FALSE, val |-> JNull]

IsBlank(line) == line.raw \in {"empty", "whitespace"}

\* a JSON object with the given fields, Absent ones left out
Present(ent) == SelectSeq(ent, LAMBDA x : x.v # Absent)
Record(text, url, md, lang, ft) ==
    JObj(Present(<<Entry("text", text), Entry("url", url), Entry("metadata", md),
                   Entry(LangKey, lang), Entry(FtKey, ft)>>))

(***************************************************************************)
(* Column builders and the schema (main.rs 77-86, 105-110).               *)
(***************************************************************************)
NoValue == [none |-> TRUE]

Columns == <<"text", "url", "id", "language", "language_score", "fasttext_score">>

\* StringBuilder::new / Float32Builder::new: a typed, empty builder.  A slot
\* is Some(value) or None (a null).
NewBuilders ==
    [text           |-> [type |-> "Utf8",    vals |-> <<>>],
     url            |-> [type |-> "Utf8",    vals |-> <<>>],
     id             |-> [type |-> "Utf8",    vals |-> <<>>],
     language       |-> [type |-> "Utf8",    vals |-> <<>>],
     language_score |-> [type |-> "Float32", vals |-> <<>>],
     fasttext_score |-> [type |-> "Float32", vals |-> <<>>]]

append_value(b, col, x)    == [b EXCEPT ![col].vals = Append(@, Some(x))]
append_option(b, col, opt) == [b EXCEPT ![col].vals = Append(@, opt)]

Field(name, type, nullable) == [name |-> name, type |-> type, nullable |-> nullable]

_build_schema ==
    <<Field("text", "Utf8", FALSE),
      Field("url", "Utf8", FALSE),
      Field("id", "Utf8", FALSE),
      Field("language", "Utf8", FALSE),
      Field("language_score", "Float32", FALSE),
      Field("fasttext_score", "Float32", FALSE)>>

(***************************************************************************)
(* One iteration of the for loop of jsonl_to_parquet (main.rs 112-142).   *)
(* The result is the builders as the iteration leaves them and, when an    *)
(* unwrap panics, the step that panicked.                                  *)
(***************************************************************************)
Done(b)         == [ok |-> TRUE,  b |-> b, fault |-> "none"]
Panic(b, where) == [ok |-> FALSE, b |-> b, fault |-> where]

\* (a variant that falls back to "" where the field is no string)
RequiredStrOrDefault(json, key) ==
    IF as_str(Index(json, key)).some THEN as_str(Index(json, key)) ELSE Some("")

\* json[key].as_str(), the argument of the unwrap of lines 117-118
RequiredStr(json, key) == as_str(Index(json, key))

\* lines 121-125
AppendId(b, json) ==
    LET m == Get(json, "metadata")
        w == IF m = Absent THEN Absent ELSE Get(m, "WARC-Record-ID")
    IN  append_option(b, "id", IF w = Absent THEN None ELSE as_str(w))

\* lines 126-134
AppendLanguage(b, json) ==
    LET max_language_score == _find_max_item(Get(json, LangKey))
    IN  IF ~max_language_score.some
        THEN append_option(append_option(b, "language", None), "language_score", None)
        ELSE append_value(append_value(b, "language", max_language_score.val.k),
                          "language_score", AsF32(max_language_score.val.v))

\* (a variant that appends nothing where the score is missing)
AppendFasttextSkip(b, json) ==
    LET ft_score == Get(json, FtKey)
    IN  IF ft_score = Absent
        THEN Done(b)
        ELSE IF ~as_f64(ft_score).some
        THEN Panic(b, "fasttext_score")
        ELSE Done(append_value(b, "fasttext_score", AsF32(as_f64(ft_score).val)))

\* lines 136-141
AppendFasttext(b, json) ==
    LET ft_score == Get(json, FtKey)
    IN  IF ft_score = Absent
        THEN Done(append_option(b, "fasttext_score", None))
        ELSE IF ~as_f64(ft_score).some
        THEN Panic(b, "fasttext_score")
        ELSE Done(append_value(b, "fasttext_score", AsF32(as_f64(ft_score).val)))

ProcessLine(b, line) ==
    LET parsed == from_str(line)
        json   == parsed.val
        text   == RequiredStr(json, "text")
        url    == RequiredStr(json, "url")
    IN  IF ~parsed.ok THEN Panic(b, "parse")
        ELSE IF ~text.some THEN Panic(b, "text")
        ELSE LET b1 == append_value(b, "text", text.val)
             IN  IF ~url.some THEN Panic(b1, "url")
                 ELSE AppendFasttext(
                          AppendLanguage(AppendId(append_value(b1, "url", url.val), json),
                                         json),
                          json)

(***************************************************************************)
(* Finalization and encoding (main.rs 144-166).                           *)
(***************************************************************************)
\* builder.finish() of each builder, in the order of the vec! of line 155
Finish(b) == [i \in 1..Len(Columns) |-> b[Columns[i]]]

null_count(arr) == Cardinality({i \in 1..Len(arr.vals) : ~arr.vals[i].some})

\* RecordBatch::try_new: one column per field, equal lengths, the field's
\* type, and no null in a column whose field is not nullable
try_new(schema, cols) ==
    /\ Len(cols) = Len(schema)
    /\ \A i \in 1..Len(cols) : Len(cols[i].vals) = Len(cols[1].vals)
    /\ \A i \in 1..Len(cols) : cols[i].type = schema[i].type
    /\ \A i \in 1..Len(cols) : ~schema[i].nullable => null_count(cols[i]) = 0

\* ArrowWriter::try_new, write, close: the batch under its schema, zstd
Encode(schema, cols) ==
    [magic |-> "PAR1", compression |-> "ZSTD", schema |-> schema, columns |-> cols]

\* what a failed write_mem_to_pathbuf may leave at the output path
Partial == [partial |-> TRUE]

(***************************************************************************)
(* The inputs of the model: lines that differ in at most one field from a  *)
(* record carrying every field, or from one carrying only text and url,    *)
(* and lines that are no JSON object at all.                               *)
(***************************************************************************)
TextOpts == {JStr("a"), JStr("b"), Absent, JNum(1)}
UrlOpts  == {JStr("u"), Absent, JNull}
MdOpts   == {Absent,
             JObj(<<Entry("WARC-Record-ID", JStr("id2"))>>),
             JObj(<<>>),
             JObj(<<Entry("WARC-Record-ID", JNum(7))>>),
             JStr("m")}
LangOpts == {Absent,
             JObj(<<Entry("en", JNum(1)), Entry("fr", JNum(2))>>),
             JObj(<<>>),
             JStr("en")}
FtOpts   == {Absent, JNum(3), JStr("high")}

FieldOpts == [text : TextOpts, url : UrlOpts, md : MdOpts, lang : LangOpts, ft : FtOpts]

FullFields ==
    [text |-> JStr("a"), url |-> JStr("u"),
     md   |-> JObj(<<Entry("WARC-Record-ID", JStr("id2"))>>),
     lang |-> JObj(<<Entry("en", JNum(1)), Entry("fr", JNum(2))>>),
     ft   |-> JNum(3)]
BareFields ==
    [text |-> JStr("a"), url |-> JStr("u"), md |-> Absent, lang |-> Absent, ft |-> Absent]

Differ(f, g) == Cardinality({x \in DOMAIN f : f[x] # g[x]})

Lines ==
    {TextLine(c) : c \in {"empty", "whitespace", "garbage"}}
    \cup {JsonLine(JNum(5))}
    \cup {JsonLine(Record(f.text, f.url, f.md, f.lang, f.ft)) :
            f \in {g \in FieldOpts : Differ(g, FullFields) <= 1 \/ Differ(g, BareFields) <= 1}}

RECURSIVE SeqsUpTo(_, _)
SeqsUpTo(S, n) ==
    IF n = 0 THEN {<<>>}
    ELSE LET shorter == SeqsUpTo(S, n - 1)
         IN  shorter \cup {Append(q, x) : q \in shorter, x \in S}

(***************************************************************************)
(* Spec: jsonl_to_parquet (main.rs 101-170), one input file.              *)
(***************************************************************************)
IdleConv ==
    /\ contents = <<>> /\ readOk = TRUE /\ writeOk = TRUE /\ pc = "idle" /\ idx = 0
    /\ builders = NewBuilders /\ arrays = <<>> /\ buf = NoValue
    /\ output = NoValue /\ writes = 0 /\ fault = "none"
IdleMain ==
    /\ files = <<>> /\ threads = 1 /\ jobs = {} /\ pos = 0 /\ out = <<>>
    /\ results = <<>> /\ incs = <<>>
    /\ mainpc = "idle"
IdleMax == mjson = Absent /\ mresult = None /\ mpc = "idle"
IdleExt == path = <<>> /\ outpath = <<>> /\ epc = "idle"

InitConv ==
    /\ contents \in SeqsUpTo(Lines, MaxLines)
    /\ readOk \in BOOLEAN
    /\ writeOk \in BOOLEAN
    /\ pc = "read"
    /\ idx = 0
    /\ builders = NewBuilders
    /\ arrays = <<>>
    /\ buf = NoValue
    /\ output = NoValue
    /\ writes = 0
    /\ fault = "none"

\* line 103 and the builders of lines 105-110
ReadInput ==
    /\ pc = "read"
    /\ IF readOk
       THEN pc' = "loop" /\ fault' = fault
       ELSE pc' = "panicked" /\ fault' = "read"
    /\ builders' = NewBuilders
    /\ UNCHANGED <<contents, readOk, writeOk, idx, arrays, buf, output, writes,
                   mainVars, maxVars, extVars>>

\* one iteration of the loop of lines 112-142
LoopStep ==
    /\ pc = "loop"
    /\ idx < Len(contents)
    /\ LET r == ProcessLine(builders, contents[idx + 1])
       IN  /\ builders' = r.b
           /\ IF r.ok
              THEN idx' = idx + 1 /\ pc' = pc /\ fault' = fault
              ELSE idx' = idx /\ pc' = "panicked" /\ fault' = r.fault
    /\ UNCHANGED <<contents, readOk, writeOk, arrays, buf, output, writes,
                   mainVars, maxVars, extVars>>

\* lines 144-149: finish() hands over the array and resets the builder
FinishStep ==
    /\ pc = "loop"
    /\ idx = Len(contents)
    /\ arrays' = Finish(builders)
    /\ builders' = NewBuilders
    /\ pc' = "try_new"
    /\ UNCHANGED <<contents, readOk, writeOk, idx, buf, output, writes, fault,
                   mainVars, maxVars, extVars>>

\* (a variant that goes on to encode whatever try_new answers)
TryNewStepIgnoringError ==
    /\ pc = "try_new"
    /\ pc' = "encode"
    /\ UNCHANGED <<contents, readOk, writeOk, idx, builders, arrays, buf, output, writes, fault,
                   mainVars, maxVars, extVars>>

\* lines 152-156: the ? returns the error of RecordBatch::try_new
TryNewStep ==
    /\ pc = "try_new"
    /\ IF try_new(_build_schema, arrays)
       THEN pc' = "encode" /\ fault' = fault
       ELSE pc' = "err" /\ fault' = "try_new"
    /\ UNCHANGED <<contents, readOk, writeOk, idx, builders, arrays, buf, output, writes,
                   mainVars, maxVars, extVars>>

\* lines 158-166
EncodeStep ==
    /\ pc = "encode"
    /\ buf' = Encode(_build_schema, arrays)
    /\ pc' = "write"
    /\ UNCHANGED <<contents, readOk, writeOk, idx, builders, arrays, output, writes, fault,
                   mainVars, maxVars, extVars>>

\* line 168
WriteStep ==
    /\ pc = "write"
    /\ writes' = writes + 1
    /\ IF writeOk
       THEN output' = buf /\ pc' = "done" /\ fault' = fault
       ELSE output' \in {output, Partial} /\ pc' = "panicked" /\ fault' = "write"
    /\ UNCHANGED <<contents, readOk, writeOk, idx, builders, arrays, buf,
                   mainVars, maxVars, extVars>>

Init == InitConv /\ IdleMain /\ IdleMax /\ IdleExt
Next ==
    \/ ReadInput
    \/ LoopStep
    \/ FinishStep
    \/ TryNewStep
    \/ EncodeStep
    \/ WriteStep
Spec == Init /\ [][Next]_vars

(***************************************************************************)
(* Properties of jsonl_to_parquet, checked under Spec.                     *)
(***************************************************************************)
ColumnNames == {Columns[i] : i \in 1..Len(Columns)}
LineNos     == 1..Len(contents)
Finalized   == Len(arrays) = Len(Columns)
Written     == output # NoValue /\ output # Partial

\* the line is a JSON object whose field `key` is a string
HasString(line, key) ==
    /\ line.raw = "json"
    /\ line.val.t = "obj"
    /\ \E i \in 1..Len(line.val.e) : line.val.e[i].k = key /\ line.val.e[i].v.t = "str"
HasRequired(line) == HasString(line, "text") /\ HasString(line, "url")

\* the field `key` of a JSON object line, Absent when it has none
FieldOf(line, key) ==
    IF \E i \in 1..Len(line.val.e) : line.val.e[i].k = key
    THEN (line.val.e[CHOOSE i \in 1..Len(line.val.e) : line.val.e[i].k = key]).v
    ELSE Absent

NumDecoded(ls) == Cardinality({i \in 1..Len(ls) : ~IsBlank(ls[i]) /\ from_str(ls[i]).ok})

\* C1: while the loop runs the six builders all hold as many slots as lines
\* were consumed, and once the builders are finished every array holds as
\* many slots as the file has non-blank lines that decoded.
C1_ColumnAlignment ==
    /\ pc = "loop" => \A c \in ColumnNames : Len(builders[c].vals) = idx
    /\ Finalized => \A i \in 1..Len(arrays) : Len(arrays[i].vals) = NumDecoded(contents)

C1_Witness ==
    /\ pc = "try_new"
    /\ Len(contents) = 2
    /\ null_count(arrays[3]) = 1
    /\ null_count(arrays[6]) = 1
    /\ \A i \in 1..Len(arrays) : Len(arrays[i].vals) = 2

\* C2: a file whose lines all carry string text and url, and whose optional
\* fields are each missing or well typed, converts: the artifact is written
\* and a row has null exactly in the columns whose field its line lacks.
LacksId(line) ==
    \/ FieldOf(line, "metadata") = Absent
    \/ Get(FieldOf(line, "metadata"), "WARC-Record-ID") = Absent
OptionalMissingOrTyped(line) ==
    /\ HasRequired(line)
    /\ FieldOf(line, "metadata").t \in {"absent", "obj"}
    /\ Get(FieldOf(line, "metadata"), "WARC-Record-ID").t \in {"absent", "str"}
    /\ FieldOf(line, LangKey).t \in {"absent", "obj"}
    /\ FieldOf(line, FtKey).t \in {"absent", "num"}
C2_OptionalNullable ==
    ( /\ readOk /\ writeOk
      /\ \A i \in LineNos : OptionalMissingOrTyped(contents[i])
      /\ pc \in {"done", "panicked", "err"} )
    => /\ pc = "done"
       /\ Written
       /\ \A i \in LineNos :
            /\ output.columns[1].vals[i] = Some(FieldOf(contents[i], "text").s)
            /\ output.columns[2].vals[i] = Some(FieldOf(contents[i], "url").s)
            /\ LacksId(contents[i]) <=> output.columns[3].vals[i] = None
            /\ FieldOf(contents[i], FtKey) = Absent <=> output.columns[6].vals[i] = None

\* C3: a file with a JSON line whose text or url is missing or no string
\* never gets past the loop and nothing is written for it; and a written
\* artifact has no null in its text and url columns.
C3_RequiredFields ==
    /\ (\E i \in LineNos : contents[i].raw = "json" /\ ~HasRequired(contents[i]))
         => pc \in {"read", "loop", "panicked"} /\ output = NoValue /\ writes = 0
    /\ Written => null_count(output.columns[1]) = 0 /\ null_count(output.columns[2]) = 0

C3_Witness ==
    /\ pc = "panicked"
    /\ fault = "url"
    /\ idx = 1
    /\ HasRequired(contents[1])
    /\ ~HasString(contents[2], "url")
    /\ output = NoValue

\* C4: an empty or whitespace-only line is skipped: it is never the line the
\* conversion stops at, and the finished arrays hold one row per line that
\* is not blank.
C4_BlankLinesSkipped ==
    /\ (pc = "panicked" /\ fault = "parse") => ~IsBlank(contents[idx + 1])
    /\ Finalized =>
         \A i \in 1..Len(arrays) :
            Len(arrays[i].vals) = Cardinality({j \in LineNos : ~IsBlank(contents[j])})

\* C8: a line with string text and url never stops the loop, whatever the
\* types of its optional fields: the loop goes on to the next line.
C8_WrongTypedOptionalAbsorbed ==
    [][(pc = "loop" /\ idx < Len(contents) /\ HasRequired(contents[idx + 1]))
          => (pc' = "loop" /\ idx' = idx + 1)]_vars

RECURSIVE RunLines(_, _)
RunLines(b, ls) ==
    IF ls = <<>> THEN Done(b)
    ELSE LET r == ProcessLine(b, Head(ls))
         IN  IF r.ok THEN RunLines(r.b, Tail(ls)) ELSE r

Returned(res, where, art) == [result |-> res, fault |-> where, artifact |-> art]

jsonl_to_parquet(file) ==
    IF ~file.readOk THEN Returned("panic", "read", NoValue)
    ELSE LET r == RunLines(NewBuilders, file.contents)
         IN  IF ~r.ok THEN Returned("panic", r.fault, NoValue)
             ELSE IF ~try_new(_build_schema, Finish(r.b))
             THEN Returned("Err", "try_new", NoValue)
             ELSE IF ~file.writeOk THEN Returned("panic", "write", Partial)
             ELSE Returned("Ok", "none", Encode(_build_schema, Finish(r.b)))

(***************************************************************************)
(* SpecMain: main (main.rs 178-196).  paths.par_iter().for_each cuts the   *)
(* path list into tasks over index ranges.  How far rayon halves a task    *)
(* depends on the pool and on work stealing, which the source does not     *)
(* fix: in the model a task of two or more paths is either halved or       *)
(* folded, item after item, by one thread.  A panic in the closure ends    *)
(* the task it happens in; the other tasks still run, and for_each then    *)
(* resumes the panic in main.                                              *)
(***************************************************************************)
FileOf(ls, r, w) == [contents |-> ls, readOk |-> r, writeOk |-> w]

FullA == JsonLine(Record(JStr("a"), FullFields.url, FullFields.md, FullFields.lang, FullFields.ft))
FullB == JsonLine(Record(JStr("b"), FullFields.url, FullFields.md, FullFields.lang, FullFields.ft))
BareA == JsonLine(Record(JStr("a"), JStr("u"), Absent, Absent, Absent))
NoText == JsonLine(Record(Absent, JStr("u"), Absent, Absent, Absent))

MainFiles ==
    { FileOf(<<FullA, FullB>>, TRUE, TRUE),      \* converts
      FileOf(<<FullA, BareA>>, TRUE, TRUE),      \* try_new answers Err
      FileOf(<<FullA, NoText>>, TRUE, TRUE),     \* an unwrap panics in the loop
      FileOf(<<FullA>>, TRUE, FALSE) }           \* the write fails

InitMain ==
    /\ files \in SeqsUpTo(MainFiles, MaxFiles)
    /\ threads \in 1..MaxThreads
    /\ jobs = {}
    /\ pos = 0
    /\ out = [f \in 1..Len(files) |-> NoValue]
    /\ results = [f \in 1..Len(files) |-> "pending"]
    /\ incs = [f \in 1..Len(files) |-> 0]
    /\ mainpc = "start"

Job(lo, hi) == [lo |-> lo, hi |-> hi, st |-> "queued", i |-> lo]
JobLen(j) == j.hi - j.lo + 1

\* lines 182-185: build_pbar (position 0) and the one task over all paths
StartParIter ==
    /\ mainpc = "start"
    /\ pos' = 0
    /\ jobs' = {Job(1, Len(files))}
    /\ mainpc' = "for_each"
    /\ UNCHANGED <<files, threads, out, results, incs, convVars, maxVars, extVars>>

Running == {j \in jobs : j.st \in {"call", "inc"}}

\* a task is halved at its middle, as rayon's join does
Split(j) ==
    /\ mainpc = "for_each"
    /\ j.st = "queued"
    /\ JobLen(j) \div 2 >= 1
    /\ LET mid == JobLen(j) \div 2
       IN  jobs' = (jobs \ {j}) \cup {Job(j.lo, j.lo + mid - 1), Job(j.lo + mid, j.hi)}
    /\ UNCHANGED <<files, threads, pos, out, results, incs, mainpc,
                   convVars, maxVars, extVars>>

\* a task that is not halved is folded by a free thread
BeginFold(j) ==
    /\ mainpc = "for_each"
    /\ j.st = "queued"
    /\ Cardinality(Running) < threads
    /\ jobs' = (jobs \ {j}) \cup {[j EXCEPT !.st = IF j.lo > j.hi THEN "done" ELSE "call"]}
    /\ UNCHANGED <<files, threads, pos, out, results, incs, mainpc,
                   convVars, maxVars, extVars>>

\* lines 187-189: the conversion of path i and the unwrap of its result
Convert(j) ==
    /\ mainpc = "for_each"
    /\ j.st = "call"
    /\ LET r == jsonl_to_parquet(files[j.i])
       IN  /\ results' = [results EXCEPT ![j.i] = r.result]
           /\ \E art \in (IF r.fault = "write" THEN {out[j.i], r.artifact} ELSE {r.artifact}) :
                out' = [out EXCEPT ![j.i] = IF r.result = "Ok" \/ r.fault = "write"
                                            THEN art ELSE @]
           /\ jobs' = (jobs \ {j}) \cup
                        {[j EXCEPT !.st = IF r.result = "Ok" THEN "inc" ELSE "panicked"]}
    /\ UNCHANGED <<files, threads, pos, incs, mainpc, convVars, maxVars, extVars>>

\* (a variant that stores the count of the task's own items)
PbarSetFromTask(j) ==
    /\ mainpc = "for_each"
    /\ j.st = "inc"
    /\ pos' = j.i - j.lo + 1
    /\ incs' = [incs EXCEPT ![j.i] = @ + 1]
    /\ jobs' = (jobs \ {j}) \cup
                 {IF j.i = j.hi THEN [j EXCEPT !.st = "done"]
                                ELSE [j EXCEPT !.st = "call", !.i = j.i + 1]}
    /\ UNCHANGED <<files, threads, out, results, mainpc, convVars, maxVars, extVars>>

\* line 190: pbar.inc(1), an atomic add on the shared position
PbarInc(j) ==
    /\ mainpc = "for_each"
    /\ j.st = "inc"
    /\ pos' = pos + 1
    /\ incs' = [incs EXCEPT ![j.i] = @ + 1]
    /\ jobs' = (jobs \ {j}) \cup
                 {IF j.i = j.hi THEN [j EXCEPT !.st = "done"]
                                ELSE [j EXCEPT !.st = "call", !.i = j.i + 1]}
    /\ UNCHANGED <<files, threads, out, results, mainpc, convVars, maxVars, extVars>>

\* for_each returns when every task has ended, or resumes a task's panic
\* (lines 191-195)
EndForEach ==
    /\ mainpc = "for_each"
    /\ \A j \in jobs : j.st \in {"done", "panicked"}
    /\ mainpc' = IF \E j \in jobs : j.st = "panicked" THEN "panicked" ELSE "finished"
    /\ UNCHANGED <<files, threads, jobs, pos, out, results, incs, convVars, maxVars, extVars>>

NextMain ==
    \/ StartParIter
    \/ \E j \in jobs : Split(j)
    \/ \E j \in jobs : BeginFold(j)
    \/ \E j \in jobs : Convert(j)
    \/ \E j \in jobs : PbarInc(j)
    \/ EndForEach

MainInit == InitMain /\ IdleConv /\ IdleMax /\ IdleExt
SpecMain == MainInit /\ [][NextMain]_vars

FileNos == 1..Len(files)
RECURSIVE SumTo(_, _)
SumTo(f, n) == IF n = 0 THEN 0 ELSE f[n] + SumTo(f, n - 1)

\* C5: when main has ended, every path whose own conversion succeeds has
\* been converted and its artifact written, whatever happened to the others.
C5_FailureIsolation ==
    mainpc \in {"finished", "panicked"} =>
        \A f \in FileNos :
            jsonl_to_parquet(files[f]).result = "Ok"
                => results[f] = "Ok" /\ out[f] = jsonl_to_parquet(files[f]).artifact

\* C10: the position is the number of increments made, one at most per
\* path and only for a path whose artifact is written; it never exceeds the
\* number of completed conversions and, when every conversion succeeded,
\* ends at the number of paths.
C10_ProgressCounter ==
    /\ pos = SumTo(incs, Len(files))
    /\ \A f \in FileNos :
         /\ incs[f] <= 1
         /\ incs[f] = 1 => results[f] = "Ok" /\ out[f] = jsonl_to_parquet(files[f]).artifact
    /\ pos <= Cardinality({f \in FileNos : results[f] = "Ok"})
    /\ mainpc = "finished" => pos = Len(files)

C10_Witness ==
    /\ mainpc = "finished"
    /\ threads = 2
    /\ Len(files) = 3
    /\ pos = 3

(***************************************************************************)
(* SpecMax: _find_max_item applied to one value.                           *)
(***************************************************************************)
Labels == {"de", "en", "fr"}
Scores == {JNum(1), JNum(2), JStr("high"), JNull}

\* the entries of an object have distinct keys
DistinctKeys(ent) == \A i, j \in 1..Len(ent) : ent[i].k = ent[j].k => i = j

Mappings ==
    {JObj(ent) : ent \in {q \in SeqsUpTo([k : Labels, v : Scores], MaxEntries) : DistinctKeys(q)}}

MaxInputs == {Absent, JNull, JStr("en"), JNum(1)} \cup Mappings

InitMax == mjson \in MaxInputs /\ mresult = None /\ mpc = "call"

CallFindMax ==
    /\ mpc = "call"
    /\ mresult' = _find_max_item(mjson)
    /\ mpc' = "returned"
    /\ UNCHANGED <<mjson, convVars, mainVars, extVars>>

MaxInit == InitMax /\ IdleConv /\ IdleMain /\ IdleExt
MaxNext == CallFindMax
SpecMax == MaxInit /\ [][MaxNext]_vars

\* the numeric entries of a mapping, in iteration order
NumericAt(json) == {i \in 1..Len(json.e) : json.e[i].v.t = "num"}
IsMaxAt(json, i) ==
    /\ i \in NumericAt(json)
    /\ \A j \in NumericAt(json) : json.e[j].v.n <= json.e[i].v.n

\* C6: _find_max_item answers None for a value that is absent, no object or
\* an object without a numeric entry, and otherwise the first entry, in
\* iteration order, among the numeric entries of maximal score.
C6_FirstMaximalEntry ==
    mpc = "returned" =>
        IF mjson.t # "obj" \/ NumericAt(mjson) = {}
        THEN mresult = None
        ELSE LET first == Min({i \in NumericAt(mjson) : IsMaxAt(mjson, i)})
             IN  mresult = Some([k |-> mjson.e[first].k, v |-> mjson.e[first].v.n])

(***************************************************************************)
(* SpecExt: replace_extension applied to one path.                         *)
(***************************************************************************)
Stems ==
    { <<"a">>, <<"d", "/", "b">>, <<"d", ".", "j", "s", "o", "n", "/", "c">>,
      <<"x", ".", "j", "s", "o", "n", "l", ".", "g", "z", ".", "y">>, <<>> }

Json  == <<".", "j", "s", "o", "n">>
Jsonl == <<".", "j", "s", "o", "n", "l">>
Gz    == <<".", "g", "z">>
Zstd  == <<".", "z", "s", "t", "d">>

PlainSuffixes      == {Json, Jsonl}
CompressedSuffixes == {p \o c : p \in PlainSuffixes, c \in {Gz, Zstd}}
OtherSuffixes ==
    { <<>>, <<".", "t", "x", "t">>, Parquet, Gz, Zstd,
      Jsonl \o <<".", "z", "s", "t">>, Jsonl \o <<".", "b", "z", "2">>,
      Jsonl \o <<"l">> \o Gz, <<"j", "s", "o", "n", "l">> \o Gz,
      Jsonl \o Gz \o <<"x">>, <<".", "c", "s", "v">> \o Gz }

Paths == {st \o su : st \in Stems,
                     su \in PlainSuffixes \cup CompressedSuffixes \cup OtherSuffixes}

InitExt == path \in Paths /\ outpath = <<>> /\ epc = "call"

CallReplaceExtension ==
    /\ epc = "call"
    /\ outpath' = replace_extension(path)
    /\ epc' = "returned"
    /\ UNCHANGED <<path, convVars, mainVars, maxVars>>

ExtInit == InitExt /\ IdleConv /\ IdleMain /\ IdleMax
ExtNext == CallReplaceExtension
SpecExt == ExtInit /\ [][ExtNext]_vars

EndsWith(str, suf) ==
    Len(suf) <= Len(str) /\ SubSeq(str, Len(str) - Len(suf) + 1, Len(str)) = suf
DropSuffix(str, suf) == SubSeq(str, 1, Len(str) - Len(suf))

\* the longest recognized suffix the path ends in, <<>> when it ends in none
Recognized == PlainSuffixes \cup CompressedSuffixes
RecognizedSuffixOf(str) ==
    LET ends == {suf \in Recognized : EndsWith(str, suf)}
    IN  IF ends = {} THEN <<>>
        ELSE CHOOSE suf \in ends : \A o \in ends : Len(o) <= Len(suf)

\* C7: a path ending in .json, .jsonl or one of these followed by .gz or
\* .zstd comes back with that suffix replaced by .parquet, and any other
\* path comes back unchanged.
C7_ExtensionSubstitution ==
    epc = "returned" =>
        IF RecognizedSuffixOf(path) = <<>>
        THEN outpath = path
        ELSE outpath = DropSuffix(path, RecognizedSuffixOf(path)) \o Parquet

====
